---- MODULE Spec2Model ----
(***************************************************************************)
(* A model of nmpc_pkg/controller_node.py: the NMPCNode trajectory-tracking *)
(* control loop.                                                           *)
(*                                                                         *)
(* Units.  Lengths are integers (grid cells); a fixed-point cost keeps     *)
(* three decimals (1000 = 1.0).  Angles are integers in units of np.pi/PI, *)
(* so PI stands for np.pi and 2*PI for one full turn.  Velocities are in   *)
(* units of 0.5 (min_v..max_v = -2..2, min_w..max_w = -3..3).              *)
(* Python indexes from 0 and TLA+ sequences from 1: At(path, i) reads the  *)
(* Python index i.                                                         *)
(***************************************************************************)
EXTENDS Integers, Sequences, FiniteSets, TLC

VARIABLES
    trajectory_file,            \* the lines of the file self.csv_file names, as csv.reader
                                \* yields them: a line is a sequence of fields, a field
                                \* <<v>> when float() reads the number v from it and <<>>
                                \* when float() rejects it
    reference_trajectory,       \* self.reference_trajectory: sequence of <<x, y, theta>>
    PATH_TYPE,                  \* class attribute NMPCNode.PATH_TYPE: "stop" or "repeat"
    assigned,                   \* names of the instance attributes assigned so far
    pc,                         \* where the main thread is
    error,                      \* the exception that ended the process, "none" if none
    x_position,                 \* self.x_position (<<>> before the first message)
    y_position,                 \* self.y_position (<<>> before the first message)
    yaw,                        \* self.yaw (<<>> before the first accepted pose)
    current_state,              \* self.current_state: <<>> is None
    initial_position,           \* self.initial_position: <<>> is None
    initial_position_received,  \* self.initial_position_received
    odom_received,              \* self.odom_received
    N,                          \* self.controller.N (-1 before the controller exists)
    path_type,                  \* self.path_type
    stop,                       \* self.stop
    previous_control,           \* self.previous_control
    optimal_control,            \* self.optimal_control
    \* The locals of the control_loop call that has just run, as handed to the
    \* solver (-1 and <<>> when the latest callback was not control_loop):
    closest_index,              \* the index returned to reference_trajectory_N
    ref_trajectory,             \* ref_trajectory
    ref_controls,               \* ref_controls
    current_state_unwrapped,    \* current_state_unwrapped
    cmd_vel,                    \* the last Twist published on cmd_vel_pub, <<v, w>>
    published,                  \* how many Twist messages have been published
    telemetry                   \* the payload that call sent to the plotter, <<>> if none

vars == <<trajectory_file, reference_trajectory, PATH_TYPE, assigned, pc, error, x_position, y_position,
          yaw, current_state, initial_position, initial_position_received,
          odom_received, N, path_type, stop, previous_control, optimal_control,
          closest_index, ref_trajectory, ref_controls, current_state_unwrapped,
          cmd_vel, published, telemetry>>

(***************************************************************************)
(* Bounds of the model.                                                    *)
(***************************************************************************)
\* np.pi in angle units: angles are multiples of np.pi/PI.
PI == 2
\* Odometry positions lie on the grid 0..MaxCoord x 0..1: along the path and
\* one cell beside it.
MaxCoord == 1
\* The control loop is followed for at most MaxTicks published commands.
MaxTicks == 2
\* Reference paths of the node have 0..MaxShortLen points, or more than ten.
MaxShortLen == 3
\* The long reference paths have 11..10+MaxOverhang points.
MaxOverhang == 1
\* Horizon extraction alone is applied to paths of 1..MaxFnLen points
MaxFnLen == 3
\* and to horizon lengths 1..MaxFnN.
MaxFnN == 4
\* scale_N is applied at start-up to trajectories of 0..MaxPathLen points.
MaxPathLen == 600
\* The nearest-point search alone is applied to paths of 2..MaxSearchLen points.
MaxSearchLen == 3
\* Trajectory files have a header line and 0..MaxFileRows lines after it.
MaxFileRows == 2

(***************************************************************************)
(* Arithmetic helpers.                                                     *)
(***************************************************************************)
Abs(n) == IF n < 0 THEN -n ELSE n

At(seq, i) == seq[i + 1]

\* floor(sqrt(n)), by bisection.
RECURSIVE SqrtSearch(_, _, _)
SqrtSearch(n, lo, hi) ==
    IF lo >= hi THEN lo
    ELSE LET mid == (lo + hi + 1) \div 2
         IN  IF mid * mid <= n THEN SqrtSearch(n, mid, hi)
                               ELSE SqrtSearch(n, lo, mid - 1)

ISqrt(n) == SqrtSearch(n, 0, IF n < 46340 THEN n ELSE 46340)

\* np.linalg.norm of (dx, dy), three decimals.
norm(dx, dy) == ISqrt((dx * dx + dy * dy) * 1000000)

(***************************************************************************)
(* numpy helpers, on angles in units of np.pi/PI (exact arithmetic).       *)
(***************************************************************************)
\* np.arctan2(np.sin(d), np.cos(d)): d wrapped into (-pi, pi].
wrap_angle(d) ==
    LET m == d % (2 * PI)
    IN  IF m > PI THEN m - 2 * PI ELSE m

\* np.unwrap's correction for one difference dd = p[i+1] - p[i]:
\* ddmod = mod(dd + pi, 2 pi) - pi, set to +pi where it is -pi and dd > 0;
\* the correction is ddmod - dd, and 0 where abs(dd) < pi.
ph_correct(dd) ==
    LET m == ((dd + PI) % (2 * PI)) - PI
        ddmod == IF m = -PI /\ dd > 0 THEN PI ELSE m
    IN  IF Abs(dd) < PI THEN 0 ELSE ddmod - dd

\* np.unwrap(p): p[i] plus the cumulative sum of the corrections before i.
\* out holds the unwrapped p[1..i-1] and offset the corrections summed so far.
RECURSIVE unwrap_scan(_, _, _, _)
unwrap_scan(p, i, offset, out) ==
    IF i > Len(p) THEN out
    ELSE LET next_offset == IF i = 1 THEN 0
                            ELSE offset + ph_correct(p[i] - p[i - 1])
         IN  unwrap_scan(p, i + 1, next_offset, Append(out, p[i] + next_offset))

np_unwrap(p) == unwrap_scan(p, 1, 0, <<>>)

\* column c of an array given as a sequence of rows
Column(rows, c) == [i \in 1..Len(rows) |-> rows[i][c]]

(***************************************************************************)
(* NMPCNode's pure methods.                                                *)
(***************************************************************************)
\* scale_N rounding to the nearest integer instead of truncating
scale_N_rounded(trajectory) ==
    LET trajectory_length == Len(trajectory)
    IN  IF trajectory_length < 500 THEN 10 ELSE (trajectory_length + 25) \div 50

\* scale_N: the horizon length for a trajectory.
scale_N(trajectory) ==
    LET trajectory_length == Len(trajectory)
    IN  IF trajectory_length < 500 THEN 10 ELSE trajectory_length \div 50

\* euler_from_quaternion, for a planar orientation given by its heading h (the
\* quaternion (0, 0, sin(h/2), cos(h/2))): yaw = arctan2(sin h, cos h), which
\* lies in [-pi, pi]; both ends occur (the sign of a zero sine decides).
euler_from_quaternion(h) ==
    IF h > PI THEN h - 2 * PI
    ELSE IF h < -PI THEN h + 2 * PI
    ELSE h

\* weight = 0.2, in tenths
weight == 2

\* cost taking the orientation difference without wrapping it into (-pi, pi]
cost_without_wrap(row, ref_angle, state) ==
    LET angle_diff == Abs(ref_angle - state[3])
    IN  norm(row[1] - state[1], row[2] - state[2])
        + (weight * angle_diff * 31416) \div (100 * PI)

\* cost[i] = distances[i] + weight * angle_diffs[i] for one row of the
\* trajectory and its unwrapped angle, three decimals (np.pi = 3.1416).
cost(row, ref_angle, state) ==
    LET angle_diff == Abs(wrap_angle(ref_angle - state[3]))
    IN  norm(row[1] - state[1], row[2] - state[2])
        + (weight * angle_diff * 31416) \div (100 * PI)

\* argmin_scan keeping the last least entry
RECURSIVE argmin_scan_last(_, _, _)
argmin_scan_last(c, best, from) ==
    IF from > Len(c) THEN best
    ELSE argmin_scan_last(c, IF c[from] <= c[best] THEN from ELSE best, from + 1)

\* np.argmin over c[from..]: a scan that keeps the first least entry; best is
\* the least index so far.
RECURSIVE argmin_scan(_, _, _)
argmin_scan(c, best, from) ==
    IF from > Len(c) THEN best
    ELSE argmin_scan(c, IF c[from] < c[best] THEN from ELSE best, from + 1)

\* cost, lines 156-168, as an array over the trajectory
cost_array(traj, ref_angles, state) ==
    [i \in 1..Len(traj) |-> cost(traj[i], ref_angles[i], state)]

\* find_closest_point_index, lines 152-171: np.argmin(cost), a Python index.
argmin_cost(traj, state) ==
    argmin_scan(cost_array(traj, np_unwrap(Column(traj, 3)), state), 1, 2) - 1

\* end_of_trajectory with the stop flag cleared again away from the end
end_of_trajectory_clearing(closest, len, n, ptype, stp) ==
    IF closest >= len - n
    THEN IF ptype = "stop" THEN [index |-> closest, stop |-> TRUE]
         ELSE IF ptype = "repeat" THEN [index |-> 1, stop |-> stp]
         ELSE [index |-> closest, stop |-> stp]
    ELSE [index |-> closest, stop |-> FALSE]

\* end_of_trajectory with the stop flag set before the policy is looked at
end_of_trajectory_stopping(closest, len, n, ptype, stp) ==
    IF closest >= len - n
    THEN IF ptype = "repeat" THEN [index |-> 1, stop |-> TRUE]
         ELSE [index |-> closest, stop |-> TRUE]
    ELSE [index |-> closest, stop |-> stp]

\* end_of_trajectory with 'repeat' restarting at index 0
end_of_trajectory_from_0(closest, len, n, ptype, stp) ==
    IF closest >= len - n
    THEN IF ptype = "stop" THEN [index |-> closest, stop |-> TRUE]
         ELSE IF ptype = "repeat" THEN [index |-> 0, stop |-> stp]
         ELSE [index |-> closest, stop |-> stp]
    ELSE [index |-> closest, stop |-> stp]

\* find_closest_point_index, lines 173-186: the end-of-trajectory policy applied
\* to np.argmin's index.  Returns the index and the value self.stop then has.
end_of_trajectory(closest, len, n, ptype, stp) ==
    IF closest >= len - n
    THEN IF ptype = "stop" THEN [index |-> closest, stop |-> TRUE]
         ELSE IF ptype = "repeat" THEN [index |-> 1, stop |-> stp]
         ELSE [index |-> closest, stop |-> stp]
    ELSE [index |-> closest, stop |-> stp]

find_closest_point_index(traj, n, ptype, stp, state) ==
    end_of_trajectory(argmin_cost(traj, state), Len(traj), n, ptype, stp)

\* horizon_rows stopping at the last point instead of wrapping
horizon_rows_clamped(traj, start, n) ==
    [i \in 1..(n + 1) |->
        At(traj, IF start + (i - 1) < Len(traj) THEN start + (i - 1) ELSE Len(traj) - 1)]

\* reference_trajectory_N, lines 199-201: n+1 rows read cyclically from start
horizon_rows(traj, start, n) ==
    [i \in 1..(n + 1) |-> At(traj, (start + (i - 1)) % Len(traj))]

\* reference_trajectory_N, line 204: the orientation column unwrapped
with_angles(rows, angles) ==
    [i \in 1..Len(rows) |-> <<rows[i][1], rows[i][2], angles[i]>>]

\* unwrap_rows leaving the orientation column as stored
unwrap_rows_skipped(rows) == rows

unwrap_rows(rows) == with_angles(rows, np_unwrap(Column(rows, 3)))

\* reference_trajectory_N, lines 193-206, from the index it was given
extract_horizon(traj, start, n) == unwrap_rows(horizon_rows(traj, start, n))

\* unwrap_current_state adjusting from a difference of pi on
unwrap_current_state_from_pi(state, ref) ==
    LET ref_angle == ref[1][3]
        current_angle == state[3]
        diff == current_angle - ref_angle
    IN  <<state[1], state[2],
          IF Abs(diff) >= PI
          THEN IF diff > 0 THEN current_angle - 2 * PI ELSE current_angle + 2 * PI
          ELSE current_angle>>

\* unwrap_current_state
unwrap_current_state(state, ref) ==
    LET ref_angle == ref[1][3]
        current_angle == state[3]
        diff == current_angle - ref_angle
    IN  <<state[1], state[2],
          IF Abs(diff) > PI
          THEN IF diff > 0 THEN current_angle - 2 * PI ELSE current_angle + 2 * PI
          ELSE current_angle>>

\* np.tile(previous_control, (N, 1))
tile(control, n) == [i \in 1..n |-> control]

\* line 117: x, y, theta = map(float, row) succeeds on a line of exactly three
\* fields that float() reads
row_parses(line) ==
    /\ Len(line) = 3
    /\ \A f \in 1..3 : Len(line[f]) = 1

\* lines 116-118: the loop over the lines after the first, from line i on;
\* out holds the rows appended so far.
RECURSIVE read_rows(_, _, _)
read_rows(file, i, out) ==
    IF i > Len(file) THEN [error |-> "none", rows |-> out]
    ELSE IF ~row_parses(file[i]) THEN [error |-> "ValueError", rows |-> out]
    ELSE read_rows(file, i + 1,
                   Append(out, <<file[i][1][1], file[i][2][1], file[i][3][1]>>))

\* load_trajectory, lines 112-119, on an opened file: next() skips the first
\* line and raises StopIteration when there is none.
load_trajectory(file) ==
    IF Len(file) = 0 THEN [error |-> "StopIteration", rows |-> <<>>]
    ELSE read_rows(file, 2, <<>>)

\* The header line: three fields, none a number.
header == << <<>>, <<>>, <<>> >>

\* the file a trajectory is loaded from: the header and one line per point
csv_of(trajectory) ==
    <<header>> \o [i \in 1..Len(trajectory) |->
                      << <<trajectory[i][1]>>, <<trajectory[i][2]>>,
                         <<trajectory[i][3]>> >>]

(***************************************************************************)
(* What the environment can deliver.                                       *)
(***************************************************************************)
\* The reference trajectories the node is run on: points one cell apart along
\* the x axis, with the headings of a pattern repeated along the path
\* (constant; jumps of more than pi, of exactly pi and of less).
HeadingPatterns == {<<0>>, <<1 - PI, PI, 0>>}

PathLens == (0..MaxShortLen) \cup (11..(10 + MaxOverhang))

LinePath(len, pat) ==
    [i \in 1..len |-> <<i - 1, 0, pat[((i - 1) % Len(pat)) + 1]>>]

Paths == {LinePath(len, pat) : len \in PathLens, pat \in HeadingPatterns}

\* Odometry messages: a position on the grid and a planar heading.
Coords == 0..MaxCoord

Offsets == 0..1

Headings == {0, PI, -(PI + 1)}

\* Controller.solve returns a control within [min_v, max_v] x [min_w, max_w],
\* or raises; <<>> stands for an exception.
Controls == {<<1, 0>>, <<-2, 3>>}

SolverOutcomes == Controls \cup {<<>>}

(***************************************************************************)
(* The node.                                                               *)
(***************************************************************************)
\* The node when __init__ has reached the wait loop of _init_communication
\* (line 61) with the reference trajectory loaded: the state in which the
\* first callback can run.
Init ==
    /\ reference_trajectory \in Paths
    /\ trajectory_file = csv_of(reference_trajectory)
    /\ PATH_TYPE \in {"stop", "repeat"}
    /\ assigned = {"current_state", "previous_control", "actual_trajectory",
                   "reference_trajectory", "rate", "csv_file", "cmd_vel_pub",
                   "odom_sub", "initial_position_received", "initial_position"}
    /\ pc = "wait_initial"
    /\ error = "none"
    /\ x_position = <<>>
    /\ y_position = <<>>
    /\ yaw = <<>>
    /\ current_state = <<>>
    /\ initial_position = <<>>
    /\ initial_position_received = FALSE
    /\ odom_received = FALSE
    /\ N = -1
    /\ path_type = "unset"
    /\ stop = FALSE
    /\ previous_control = <<0, 0>>
    /\ optimal_control = <<>>
    /\ closest_index = -1
    /\ ref_trajectory = <<>>
    /\ ref_controls = <<>>
    /\ current_state_unwrapped = <<>>
    /\ cmd_vel = <<>>
    /\ published = 0
    /\ telemetry = <<>>

\* is_origin discarding nothing
is_origin_never(x, y) == FALSE

\* is_origin looking for the origin only until a pose has been accepted
is_origin_until_valid(x, y) == x = 0 /\ y = 0 /\ ~initial_position_received

\* line 93: the position that odom_callback discards
is_origin(x, y) == x = 0 /\ y = 0

\* No control_loop call is in progress: its locals and payload do not exist.
no_call ==
    /\ closest_index' = -1
    /\ ref_trajectory' = <<>>
    /\ ref_controls' = <<>>
    /\ current_state_unwrapped' = <<>>
    /\ telemetry' = <<>>

\* state_array reading the yaw of the update before
state_array_stale_yaw(x, y, a) == <<x, y, IF "yaw" \in assigned THEN yaw ELSE a>>

\* line 101: np.array([self.x_position, self.y_position, self.yaw])
state_array(x, y, a) == <<x, y, a>>

\* odom_callback(msg), run by spin_once (line 62, until the first accepted
\* pose) or by spin (line 300): the position is mx, my and the orientation the
\* planar heading mh.  The executor of spin_once and spin is single-threaded:
\* a callback runs to its end before the next one starts.
odom_callback(mx, my, mh) ==
    /\ \/ pc = "spin"
       \/ pc = "wait_initial" /\ ~initial_position_received
    /\ x_position' = mx
    /\ y_position' = my
    /\ IF is_origin(x_position', y_position')
       THEN /\ assigned' = assigned \cup {"x_position", "y_position"}
            /\ UNCHANGED <<yaw, current_state, initial_position,
                           initial_position_received, odom_received>>
       ELSE /\ assigned' = assigned \cup {"x_position", "y_position", "yaw",
                                          "odom_received"}
            /\ yaw' = euler_from_quaternion(mh)
            /\ current_state' = state_array(x_position', y_position', yaw')
            /\ initial_position' =
                   IF initial_position_received THEN initial_position
                                                ELSE current_state'
            /\ initial_position_received' = TRUE
            /\ odom_received' = TRUE
    /\ no_call
    /\ UNCHANGED <<trajectory_file, reference_trajectory, PATH_TYPE, pc, error, N, path_type, stop,
                   previous_control, optimal_control, cmd_vel, published>>

\* The wait loop of line 61 ends; the rest of _init_communication and
\* _init_controller run, and main enters rclpy.spin.
init_controller ==
    /\ pc = "wait_initial"
    /\ initial_position_received
    /\ N' = scale_N(reference_trajectory)
    /\ path_type' = PATH_TYPE
    /\ stop' = FALSE
    /\ assigned' = assigned \cup {"socket", "controller", "trajectory_index",
                                  "timer", "path_type", "stop"}
    /\ pc' = "spin"
    /\ UNCHANGED <<trajectory_file, reference_trajectory, PATH_TYPE, error, x_position, y_position, yaw,
                   current_state, initial_position, initial_position_received,
                   odom_received, previous_control, optimal_control, closest_index,
                   ref_trajectory, ref_controls, current_state_unwrapped, cmd_vel,
                   published, telemetry>>

\* twist clamping the control to the unit box again
twist_clamped(stp, control) ==
    IF stp = TRUE THEN <<0, 0>>
    ELSE <<IF control[1] > 1 THEN 1 ELSE IF control[1] < -1 THEN -1 ELSE control[1],
           IF control[2] > 1 THEN 1 ELSE IF control[2] < -1 THEN -1 ELSE control[2]>>

\* control_loop, lines 275-284: the Twist for the stop flag and the solver's control
twist(stp, control) == IF stp = TRUE THEN <<0, 0>> ELSE control

\* control_loop, line 259: the reference controls built from self.previous_control
reference_controls(control, n) == tile(control, n)

\* An uncaught exception leaves control_loop and rclpy.spin; main catches only
\* KeyboardInterrupt (lines 299-302), so the process ends.
raise(exception) ==
    /\ pc' = "crashed"
    /\ error' = exception

\* control_loop from line 256 on, with send_data.  found is what
\* find_closest_point_index returned to reference_trajectory_N and again what
\* it returned to send_data; outcome is what Controller.solve does and
\* sendto_ok whether socket.sendto succeeds.
tracking(found, horizon, again, outcome, sendto_ok) ==
    /\ closest_index' = found.index
    /\ ref_trajectory' = horizon
    /\ ref_controls' = reference_controls(previous_control, N)
    /\ current_state_unwrapped' = unwrap_current_state(current_state, horizon)
    /\ IF outcome = <<>>
       THEN \* line 268 raises
            /\ raise("SolverFailure")
            /\ stop' = found.stop
            /\ UNCHANGED <<assigned, optimal_control, cmd_vel, published, telemetry>>
       ELSE /\ optimal_control' = outcome
            /\ assigned' = assigned \cup {"optimal_control", "time_taken"}
            /\ cmd_vel' = twist(found.stop, outcome)
            /\ published' = published + 1
            /\ stop' = again.stop
            /\ IF again.index >= Len(reference_trajectory)
               THEN \* line 212
                    /\ raise("IndexError")
                    /\ UNCHANGED telemetry
               ELSE IF ~sendto_ok
               THEN \* line 225 raises
                    /\ raise("OSError")
                    /\ UNCHANGED telemetry
               ELSE /\ telemetry' =
                           <<current_state[1], current_state[2],
                             At(reference_trajectory, again.index)[1],
                             At(reference_trajectory, again.index)[2]>>
                    /\ UNCHANGED <<pc, error>>

\* control_loop, the timer callback
control_loop ==
    /\ pc = "spin"
    /\ published < MaxTicks
    /\ UNCHANGED <<trajectory_file, reference_trajectory, PATH_TYPE, x_position, y_position, yaw,
                   current_state, initial_position, initial_position_received,
                   odom_received, N, path_type, previous_control>>
    /\ IF "odom_received" \notin assigned
       THEN /\ raise("AttributeError")
            /\ no_call
            /\ UNCHANGED <<assigned, stop, optimal_control, cmd_vel, published>>
       ELSE IF ~odom_received
       THEN /\ no_call
            /\ UNCHANGED <<assigned, pc, error, stop, optimal_control, cmd_vel,
                           published>>
       ELSE IF Len(reference_trajectory) = 0
       THEN \* line 156: an empty array has one dimension
            /\ raise("IndexError")
            /\ no_call
            /\ UNCHANGED <<assigned, stop, optimal_control, cmd_vel, published>>
       ELSE \E found \in {find_closest_point_index(reference_trajectory, N,
                                                   path_type, stop, current_state)} :
            \E horizon \in {extract_horizon(reference_trajectory, found.index, N)} :
            \E again \in {find_closest_point_index(reference_trajectory, N,
                                                   path_type, found.stop,
                                                   current_state)} :
            \E outcome \in SolverOutcomes, sendto_ok \in BOOLEAN :
                tracking(found, horizon, again, outcome, sendto_ok)

Next ==
    \/ \E mx \in Coords, my \in Offsets, mh \in Headings : odom_callback(mx, my, mh)
    \/ init_controller
    \/ control_loop

Spec == Init /\ [][Next]_vars

(***************************************************************************)
(* Construction of the node: __init__ from its first statement.            *)
(***************************************************************************)
\* Lines after the header: two that parse, and one each with two fields, with
\* a field that is no number, with no field (a blank line) and with four.
FileLines ==
    { << <<0>>, <<0>>, <<0>> >>,
      << <<1>>, <<0>>, <<PI>> >>,
      << <<0>>, <<0>> >>,
      << <<0>>, <<0>>, <<>> >>,
      <<>>,
      << <<0>>, <<0>>, <<0>>, <<0>> >> }

RECURSIVE FileRowsOfLen(_)
FileRowsOfLen(len) ==
    IF len = 0 THEN {<<>>}
    ELSE {Append(rows, line) : rows \in FileRowsOfLen(len - 1), line \in FileLines}

\* The trajectory files: one with no line at all, and a header followed by
\* 0..MaxFileRows lines.
Files ==
    {<<>>} \cup {<<header>> \o rows :
                     rows \in UNION {FileRowsOfLen(len) : len \in 0..MaxFileRows}}

\* The fields of a node on which no method has run yet.
Unconstructed ==
    /\ trajectory_file \in Files
    /\ PATH_TYPE \in {"stop", "repeat"}
    /\ pc = "init_state_variables"
    /\ error = "none"
    /\ reference_trajectory = <<>>
    /\ x_position = <<>>
    /\ y_position = <<>>
    /\ yaw = <<>>
    /\ current_state = <<>>
    /\ initial_position = <<>>
    /\ initial_position_received = FALSE
    /\ odom_received = FALSE
    /\ N = -1
    /\ path_type = "unset"
    /\ stop = FALSE
    /\ previous_control = <<>>
    /\ optimal_control = <<>>
    /\ closest_index = -1
    /\ ref_trajectory = <<>>
    /\ ref_controls = <<>>
    /\ current_state_unwrapped = <<>>
    /\ cmd_vel = <<>>
    /\ published = 0
    /\ telemetry = <<>>

\* main, line 298: NMPCNode() enters __init__; no attribute is assigned.
StartInit ==
    /\ Unconstructed
    /\ assigned = {}

\* _init_state_variables (lines 40-51) with load_trajectory (lines 110-119):
\* line 113 reads self.csv_file.
init_state_variables ==
    /\ pc = "init_state_variables"
    /\ current_state' = <<>>
    /\ previous_control' = <<0, 0>>
    /\ IF "csv_file" \notin assigned
       THEN /\ raise("AttributeError")
            /\ assigned' = assigned \cup {"current_state", "previous_control",
                                          "actual_trajectory"}
            /\ UNCHANGED reference_trajectory
       ELSE \E loaded \in {load_trajectory(trajectory_file)} :
              IF loaded.error # "none"
              THEN /\ raise(loaded.error)
                   /\ assigned' = assigned \cup {"current_state", "previous_control",
                                                 "actual_trajectory"}
                   /\ UNCHANGED reference_trajectory
              ELSE /\ reference_trajectory' = loaded.rows
                   /\ assigned' = assigned \cup {"current_state", "previous_control",
                                                 "actual_trajectory",
                                                 "reference_trajectory"}
                   /\ pc' = "init_parameters"
                   /\ UNCHANGED error
    /\ UNCHANGED <<trajectory_file, PATH_TYPE, x_position, y_position, yaw,
                   initial_position, initial_position_received, odom_received, N,
                   path_type, stop, optimal_control, closest_index, ref_trajectory,
                   ref_controls, current_state_unwrapped, cmd_vel, published,
                   telemetry>>

\* _init_parameters, lines 25-38
init_parameters ==
    /\ pc = "init_parameters"
    /\ assigned' = assigned \cup {"rate", "csv_file"}
    /\ pc' = "init_communication"
    /\ UNCHANGED <<trajectory_file, reference_trajectory, PATH_TYPE, error, x_position,
                   y_position, yaw, current_state, initial_position,
                   initial_position_received, odom_received, N, path_type, stop,
                   previous_control, optimal_control, closest_index, ref_trajectory,
                   ref_controls, current_state_unwrapped, cmd_vel, published,
                   telemetry>>

\* _init_communication, lines 53-60, up to the wait loop
init_communication ==
    /\ pc = "init_communication"
    /\ assigned' = assigned \cup {"cmd_vel_pub", "odom_sub",
                                  "initial_position_received", "initial_position"}
    /\ initial_position_received' = FALSE
    /\ initial_position' = <<>>
    /\ pc' = "wait_initial"
    /\ UNCHANGED <<trajectory_file, reference_trajectory, PATH_TYPE, error, x_position,
                   y_position, yaw, current_state, odom_received, N, path_type, stop,
                   previous_control, optimal_control, closest_index, ref_trajectory,
                   ref_controls, current_state_unwrapped, cmd_vel, published,
                   telemetry>>

\* __init__ calls _init_state_variables first (line 20): the only method of
\* the node that construction enters.
StartNext == init_state_variables

SpecStart == StartInit /\ [][StartNext]_vars

\* load_trajectory as its caller means it to run: _init_state_variables is
\* entered with self.csv_file naming the trajectory file.
LoadInit ==
    /\ Unconstructed
    /\ assigned = {"csv_file"}

LoadNext ==
    \/ init_state_variables
    \/ init_parameters
    \/ init_communication
    \/ \E mx \in Coords, my \in Offsets, mh \in Headings : odom_callback(mx, my, mh)
    \/ init_controller
    \/ control_loop

SpecLoad == LoadInit /\ [][LoadNext]_vars

(***************************************************************************)
(* The methods on their own: horizon extraction, unwrap_current_state and  *)
(* the start-up computation of N, each applied once to inputs drawn from   *)
(* bounded sets.                                                           *)
(***************************************************************************)
\* Orientations of the inputs: [-pi, pi] and three turns either way.
FnAngles == ((-PI)..PI) \cup {-3 * PI, 3 * PI}

FnPoints(i) == {<<i - 1, 0, a>> : a \in FnAngles}

\* every path of len points whose i-th point is at (i - 1, 0)
RECURSIVE FnPathsOfLen(_)
FnPathsOfLen(len) ==
    IF len = 0 THEN {<<>>}
    ELSE {Append(path, point) : path \in FnPathsOfLen(len - 1), point \in FnPoints(len)}

FnPaths == UNION {FnPathsOfLen(len) : len \in 1..MaxFnLen}

\* a trajectory of len points along the x axis
LongPath(len) == [i \in 1..len |-> <<i - 1, 0, 0>>]

\* the node's fields that the methods on their own leave as constructed
FnRest ==
    /\ PATH_TYPE \in {"stop", "repeat"}
    /\ assigned = {"current_state", "previous_control", "actual_trajectory",
                   "reference_trajectory", "rate", "csv_file", "cmd_vel_pub",
                   "odom_sub", "initial_position_received", "initial_position"}
    /\ error = "none"
    /\ x_position = <<>>
    /\ y_position = <<>>
    /\ yaw = <<>>
    /\ initial_position = <<>>
    /\ odom_received = FALSE
    /\ path_type = "unset"
    /\ stop = FALSE
    /\ previous_control = <<0, 0>>
    /\ optimal_control = <<>>
    /\ ref_controls = <<>>
    /\ current_state_unwrapped = <<>>
    /\ cmd_vel = <<>>
    /\ published = 0
    /\ telemetry = <<>>

FnInit ==
    /\ FnRest
    /\ \/ \* reference_trajectory_N is about to extract the horizon from closest_index
          /\ pc = "extract_horizon"
          /\ reference_trajectory \in FnPaths
          /\ N \in 1..MaxFnN
          /\ closest_index \in 0..Len(reference_trajectory)
          /\ current_state = <<>>
          /\ ref_trajectory = <<>>
          /\ initial_position_received = FALSE
       \/ \* control_loop is about to call unwrap_current_state
          /\ pc = "unwrap_current_state"
          /\ reference_trajectory = <<>>
          /\ N = -1
          /\ closest_index = -1
          /\ current_state \in {<<x, y, a>> : x \in Coords, y \in Offsets, a \in (-PI)..PI}
          /\ ref_trajectory \in {<< <<0, 0, a>> >> : a \in FnAngles}
          /\ initial_position_received = FALSE
       \/ \* the wait loop of line 61 has just ended
          /\ pc = "wait_initial"
          /\ reference_trajectory \in {LongPath(len) : len \in 0..MaxPathLen}
          /\ N = -1
          /\ closest_index = -1
          /\ current_state = <<1, 0, 0>>
          /\ ref_trajectory = <<>>
          /\ initial_position_received = TRUE
    /\ trajectory_file = csv_of(reference_trajectory)

\* reference_trajectory_N, lines 193-206
call_extract_horizon ==
    /\ pc = "extract_horizon"
    /\ ref_trajectory' = extract_horizon(reference_trajectory, closest_index, N)
    /\ pc' = "extract_horizon_done"
    /\ UNCHANGED <<trajectory_file, reference_trajectory, PATH_TYPE, assigned, error, x_position,
                   y_position, yaw, current_state,
                   initial_position, initial_position_received, odom_received, N,
                   path_type, stop, previous_control, optimal_control, closest_index,
                   ref_controls, current_state_unwrapped, cmd_vel, published,
                   telemetry>>

\* control_loop, line 262
call_unwrap_current_state ==
    /\ pc = "unwrap_current_state"
    /\ current_state_unwrapped' = unwrap_current_state(current_state, ref_trajectory)
    /\ pc' = "unwrap_current_state_done"
    /\ UNCHANGED <<trajectory_file, reference_trajectory, PATH_TYPE, assigned, error, x_position,
                   y_position, yaw, current_state,
                   initial_position, initial_position_received, odom_received, N,
                   path_type, stop, previous_control, optimal_control, closest_index,
                   ref_trajectory, ref_controls, cmd_vel, published, telemetry>>

FnNext ==
    \/ call_extract_horizon
    \/ call_unwrap_current_state
    \/ init_controller

SpecFn == FnInit /\ [][FnNext]_vars

(***************************************************************************)
(* The nearest-point search on its own: find_closest_point_index applied   *)
(* once to a path whose points may coincide, with either policy.           *)
(***************************************************************************)
\* Path points: two positions, and orientations 0, pi and just above -pi.
SearchPoints == {<<x, 0, a>> : x \in 0..1, a \in {0, PI, 1 - PI}}

RECURSIVE SearchPathsOfLen(_)
SearchPathsOfLen(len) ==
    IF len = 0 THEN {<<>>}
    ELSE {Append(path, point) : path \in SearchPathsOfLen(len - 1),
                                point \in SearchPoints}

\* at least two points, so that a rotation moves a point, and no point
\* repeated at once (a point may come back later)
SearchPaths ==
    {path \in UNION {SearchPathsOfLen(len) : len \in 2..MaxSearchLen} :
        \A i \in 1..(Len(path) - 1) : path[i] # path[i + 1]}

\* controller.N: 10 as for every short path, and 1, for which a path of
\* MaxSearchLen points has indices before L - N.
SearchN == {1, 10}

\* control_loop is about to call find_closest_point_index (line 191)
SearchInit ==
    /\ pc = "find_closest_point_index"
    /\ reference_trajectory \in SearchPaths
    /\ trajectory_file = csv_of(reference_trajectory)
    /\ PATH_TYPE \in {"stop", "repeat"}
    /\ path_type = PATH_TYPE
    /\ N \in SearchN
    /\ current_state \in {<<x, y, a>> : x \in Coords, y \in Offsets, a \in (-PI)..PI}
    /\ assigned = {"current_state", "previous_control", "actual_trajectory",
                   "reference_trajectory", "rate", "csv_file", "cmd_vel_pub",
                   "odom_sub", "initial_position_received", "initial_position",
                   "x_position", "y_position", "yaw", "odom_received", "socket",
                   "controller", "trajectory_index", "timer", "path_type", "stop"}
    /\ error = "none"
    /\ x_position = current_state[1]
    /\ y_position = current_state[2]
    /\ yaw = current_state[3]
    /\ initial_position = current_state
    /\ initial_position_received = TRUE
    /\ odom_received = TRUE
    /\ stop = FALSE
    /\ previous_control = <<0, 0>>
    /\ optimal_control = <<>>
    /\ closest_index = -1
    /\ ref_trajectory = <<>>
    /\ ref_controls = <<>>
    /\ current_state_unwrapped = <<>>
    /\ cmd_vel = <<>>
    /\ published = 0
    /\ telemetry = <<>>

\* find_closest_point_index, lines 150-186
call_find_closest_point_index ==
    /\ pc = "find_closest_point_index"
    /\ \E found \in {find_closest_point_index(reference_trajectory, N, path_type,
                                               stop, current_state)} :
          /\ closest_index' = found.index
          /\ stop' = found.stop
    /\ pc' = "find_closest_point_index_done"
    /\ UNCHANGED <<trajectory_file, reference_trajectory, PATH_TYPE, assigned, error, x_position,
                   y_position, yaw, current_state,
                   initial_position, initial_position_received, odom_received, N,
                   path_type, previous_control, optimal_control, ref_trajectory,
                   ref_controls, current_state_unwrapped, cmd_vel, published,
                   telemetry>>

SearchNext == call_find_closest_point_index

SpecSearch == SearchInit /\ [][SearchNext]_vars

(***************************************************************************)
(* Properties.                                                             *)
(***************************************************************************)
\* the length of the reference trajectory
L == Len(reference_trajectory)

\* a step of control_loop that reached the solver call (line 268)
SolverCalled == ref_trajectory' # <<>> /\ pc = "spin"

\* a step of control_loop that published a command (line 286)
Published == published' = published + 1

\* C1: under the 'stop' policy a tick that finds the nearest index >= L - N sets
\* the stop flag, the flag once set is never cleared, and that tick and every
\* later tick whose solver call returns publish one command, the zero command,
\* whatever index the tick found and whatever poses arrived before it.
C1_StickyStop ==
    /\ [][(SolverCalled /\ path_type = "stop" /\ closest_index' >= L - N)
              => stop']_vars
    /\ [][stop => stop']_vars
    /\ [][(SolverCalled /\ stop' /\ error' # "SolverFailure")
              => (Published /\ cmd_vel' = <<0, 0>>)]_vars

\* a later tick found a nearest index away from the end and still published zero
C1_Witness ==
    /\ path_type = "stop"
    /\ stop
    /\ published = 2
    /\ closest_index # -1
    /\ closest_index < L - N
    /\ cmd_vel = <<0, 0>>
    /\ pc = "spin"

\* C2: on every tick that calls the solver, the reference controls handed to
\* it are the command published by the previous tick repeated N times, and
\* zeros on the first tick.
C2_ReferenceControlsFollowCommand ==
    [][SolverCalled =>
          ref_controls' = tile(IF published = 0 THEN <<0, 0>> ELSE cmd_vel, N)]_vars

\* C3: a tick that runs with a valid pose, whose solver call returns, with the
\* stop flag not set, publishes exactly one command, and it is the control the
\* solver returned (self.optimal_control), unchanged.
C3_CommandIsSolverOutput ==
    [][(SolverCalled /\ error' # "SolverFailure" /\ ~stop')
          => (published' = published + 1 /\ cmd_vel' = optimal_control')]_vars

C3_Witness ==
    /\ ref_trajectory # <<>>
    /\ ~stop
    /\ published = 2
    /\ cmd_vel = <<-2, 3>>
    /\ optimal_control = <<-2, 3>>

\* C4: as long as no pose away from (0, 0) has been received the node waits at
\* line 61, has published nothing and has raised nothing; the first pose that
\* is accepted is away from (0, 0), and a pose at (0, 0) leaves the node waiting.
C4_WaitsForFirstPose ==
    /\ [](~initial_position_received =>
              /\ pc = "wait_initial"
              /\ error = "none"
              /\ published = 0
              /\ cmd_vel = <<>>
              /\ current_state = <<>>)
    /\ [][(~initial_position_received /\ initial_position_received') =>
              ~(current_state'[1] = 0 /\ current_state'[2] = 0)]_vars
    /\ [][\A mh \in Headings :
              (~initial_position_received /\ odom_callback(0, 0, mh))
                  => (~initial_position_received' /\ pc' = "wait_initial")]_vars

\* a pose at (0, 0) has been delivered and the node still waits
C4_Witness ==
    /\ "x_position" \in assigned
    /\ ~initial_position_received
    /\ pc = "wait_initial"
    /\ published = 0

\* C5: under the 'repeat' policy the stop flag is never set, and every
\* published command is the solver's control, not the forced zero command.
C5_RepeatNeverStops ==
    PATH_TYPE = "repeat" =>
        /\ stop = FALSE
        /\ published > 0 => cmd_vel = optimal_control

\* two ticks at the end of the trajectory under 'repeat'
C5_Witness ==
    /\ path_type = "repeat"
    /\ published = 2
    /\ closest_index # -1
    /\ argmin_cost(reference_trajectory, current_state) >= L - N
    /\ pc = "spin"

\* C6: under the 'repeat' policy the index the search returns is 1 when the
\* cost-minimising index i is >= L - N, and i otherwise; two ticks in a row
\* (no pose in between) get the same index.
C6_RepeatRestartsAtOne ==
    /\ []((path_type = "repeat" /\ closest_index # -1) =>
              closest_index =
                  IF argmin_cost(reference_trajectory, current_state) >= L - N
                  THEN 1
                  ELSE argmin_cost(reference_trajectory, current_state))
    /\ [][(path_type = "repeat" /\ closest_index # -1 /\ closest_index' # -1)
              => closest_index' = closest_index]_vars

\* the robot is nearest the last point of a three-point path and the index is 1
C6_Witness ==
    /\ path_type = "repeat"
    /\ L = 3
    /\ published = 2
    /\ closest_index = 1
    /\ argmin_cost(reference_trajectory, current_state) = L - 1
    /\ pc = "spin"

\* the stored row that entry k of the extracted horizon is read from
Stored(k) == At(reference_trajectory, (closest_index + k) % L)

\* C7: the extracted horizon has exactly N + 1 entries, and entry k has the
\* position of path[(s + k) mod L], for every k in 0..N, also when N >= L
\* (the paths of FnPaths have point i at x = i, so x names the index read).
C7_HorizonWindow ==
    pc = "extract_horizon_done" =>
        /\ Len(ref_trajectory) = N + 1
        /\ \A k \in 0..N :
              /\ At(ref_trajectory, k)[1] = Stored(k)[1]
              /\ At(ref_trajectory, k)[2] = Stored(k)[2]
              /\ At(ref_trajectory, k)[1] = (closest_index + k) % L

\* a horizon that starts at the last point and wraps more than once
C7_Witness ==
    /\ pc = "extract_horizon_done"
    /\ L = 2
    /\ closest_index = L - 1
    /\ N > 2 * L - 1
    /\ Len(ref_trajectory) = N + 1

\* C8: in the extracted horizon consecutive orientations differ by at most pi,
\* each orientation differs from the stored one by a multiple of 2 pi, and
\* the first orientation is the stored one.
C8_HorizonUnwrapped ==
    pc = "extract_horizon_done" =>
        /\ \A k \in 1..N :
              Abs(At(ref_trajectory, k)[3] - At(ref_trajectory, k - 1)[3]) <= PI
        /\ \A k \in 0..N :
              (At(ref_trajectory, k)[3] - Stored(k)[3]) % (2 * PI) = 0
        /\ At(ref_trajectory, 0)[3] = Stored(0)[3]

\* a horizon that wraps past the end of a path with a jump of exactly pi and
\* a jump of more than pi, and whose last orientation was changed
C8_Witness ==
    /\ pc = "extract_horizon_done"
    /\ N >= L
    /\ \E k \in 1..N : Abs(Stored(k)[3] - Stored(k - 1)[3]) = PI
    /\ \E k \in 1..N : Abs(Stored(k)[3] - Stored(k - 1)[3]) > PI
    /\ At(ref_trajectory, N)[3] # Stored(N)[3]

\* C9: for a current orientation and a first horizon orientation in (-pi, pi],
\* unwrap_current_state keeps x and y, changes the orientation by 0, 2 pi or
\* -2 pi, leaves it within pi of the horizon's first orientation, and changes
\* it exactly when the raw difference exceeds pi in magnitude.
C9_UnwrapCurrentState ==
    (/\ pc = "unwrap_current_state_done"
     /\ current_state[3] > -PI /\ current_state[3] <= PI
     /\ ref_trajectory[1][3] > -PI /\ ref_trajectory[1][3] <= PI)
    => /\ current_state_unwrapped[1] = current_state[1]
       /\ current_state_unwrapped[2] = current_state[2]
       /\ current_state_unwrapped[3] - current_state[3] \in {0, 2 * PI, -2 * PI}
       /\ Abs(current_state_unwrapped[3] - ref_trajectory[1][3]) <= PI
       /\ (current_state_unwrapped[3] # current_state[3])
              <=> (Abs(current_state[3] - ref_trajectory[1][3]) > PI)

\* an orientation that was moved up by 2 pi
C9_Witness ==
    /\ pc = "unwrap_current_state_done"
    /\ current_state[3] > -PI /\ current_state[3] <= PI
    /\ ref_trajectory[1][3] > -PI /\ ref_trajectory[1][3] <= PI
    /\ current_state_unwrapped[3] = current_state[3] + 2 * PI

\* C10: the horizon length that start-up computes is 10 for L < 500 and
\* floor(L / 50) for L >= 500, and once computed it never changes.
C10_HorizonLength ==
    /\ [](pc = "spin" =>
              IF L < 500 THEN N = 10
              ELSE 50 * N <= L /\ L < 50 * (N + 1))
    /\ [][N # -1 => N' = N]_vars

\* start-up with a trajectory of 500 points
C10_Witness ==
    /\ pc = "spin"
    /\ L = 500
    /\ N = 10

\* once the controller exists, no step of the node changes controller.N
NFixed == [][N # -1 => N' = N]_vars

\* the cost of path index i as the search is specified: the distance to the
\* pose plus 0.2 times the wrapped absolute difference between the stored
\* orientation and the pose's
StoredCost(path, i) ==
    norm(At(path, i)[1] - current_state[1], At(path, i)[2] - current_state[2])
    + (weight * Abs(wrap_angle(At(path, i)[3] - current_state[3])) * 31416)
          \div (100 * PI)

\* C11: the index the search finds before the end-of-path policy (under 'stop'
\* the index it returns) lies in 0..L-1, no path point costs less, and every
\* lower index costs more.
C11_NearestIsFirstMinimum ==
    (pc = "find_closest_point_index_done" /\ path_type = "stop") =>
        /\ closest_index \in 0..(L - 1)
        /\ \A j \in 0..(L - 1) :
              StoredCost(reference_trajectory, closest_index)
                  <= StoredCost(reference_trajectory, j)
        /\ \A j \in 0..(closest_index - 1) :
              StoredCost(reference_trajectory, j)
                  > StoredCost(reference_trajectory, closest_index)

\* the least cost is met at the index found and again at the last index, with
\* a costlier point before both
C11_Witness ==
    /\ pc = "find_closest_point_index_done"
    /\ path_type = "stop"
    /\ L = 3
    /\ closest_index = 1
    /\ StoredCost(reference_trajectory, 2) = StoredCost(reference_trajectory, 1)
    /\ At(reference_trajectory, 2) # At(reference_trajectory, 1)

\* the path rotated by r positions: its index j holds what path held at j + r
Rotate(path, r) ==
    [j \in 1..Len(path) |-> path[((j - 1 + r) % Len(path)) + 1]]

\* C12: for every rotation r, the search on the rotated path returns the index
\* that holds the point the search on the path returned, (i - r) mod L.
C12_RotationInvariant ==
    pc = "find_closest_point_index_done" =>
        \A r \in 0..(L - 1) :
            find_closest_point_index(Rotate(reference_trajectory, r), N, path_type,
                                     FALSE, current_state).index
                = (closest_index - r) % L

\* exactly one path index has the least cost
UniqueMinimum ==
    \A j \in 0..(L - 1) :
        j # closest_index =>
            StoredCost(reference_trajectory, j)
                > StoredCost(reference_trajectory, closest_index)

\* C12 as amended: when the least cost is met at one index only, the
\* cost-minimising index (what the search returns under 'stop') moves with
\* the rotation: on the path rotated by r it is (i - r) mod L.
C12_UniqueNearestRotates ==
    (pc = "find_closest_point_index_done" /\ path_type = "stop" /\ UniqueMinimum) =>
        \A r \in 0..(L - 1) :
            find_closest_point_index(Rotate(reference_trajectory, r), N, path_type,
                                     FALSE, current_state).index
                = (closest_index - r) % L

\* a path with one nearest point, the last, whose orientations np.unwrap
\* changes differently once the path is rotated
C12_Witness ==
    /\ pc = "find_closest_point_index_done"
    /\ path_type = "stop"
    /\ UniqueMinimum
    /\ L = 3
    /\ closest_index = L - 1
    /\ \E r \in 1..(L - 1) :
          np_unwrap(Column(Rotate(reference_trajectory, r), 3))
              # Rotate(np_unwrap(Column(reference_trajectory, 3)), r)

\* a step of control_loop that got past the odom_received test (line 246)
\* with a path to search
Tick == pc = "spin" /\ closest_index' # -1

\* C13: a tick on which the telemetry delivery fails still publishes its
\* command, and the node goes on spinning with previous_control and the stop
\* flag as the tick left them.
C13_TelemetryFailureContained ==
    [][(Tick /\ error' = "OSError") =>
          /\ Published
          /\ pc' = "spin"
          /\ previous_control' = previous_control]_vars

\* C14: a tick on which the solver raises publishes the previous tick's
\* command again, and the node goes on spinning.
C14_SolverFailureHolds ==
    [][(Tick /\ error' = "SolverFailure") =>
          /\ Published
          /\ cmd_vel' = cmd_vel
          /\ pc' = "spin"]_vars

\* C18: with a path of one point or more, no tick reads the path at an index
\* outside 0..L-1: no tick raises IndexError.
C18_PathIndicesInRange ==
    L >= 1 => error # "IndexError"

\* C20: under the 'stop' policy a tick that has the stop flag set when it
\* comes to publish has built no reference controls and has not called the
\* solver.
C20_StoppedTicksSkipSolver ==
    [][(Tick /\ path_type = "stop" /\ stop') =>
          /\ ref_controls' = <<>>
          /\ optimal_control' = optimal_control
          /\ error' # "SolverFailure"]_vars

\* C16: whatever callbacks ran before, self.current_state is None or the
\* whole (x, y, theta) of one accepted odometry message: each odom_callback
\* either leaves it alone or replaces it by its own message's triple.  A tick
\* runs only with odom_received set and a pose stored, does not change the
\* pose, and what it hands on (the unwrapped state, the telemetry position)
\* has that pose's position.
C16_PoseReadWhole ==
    /\ [][\A mx \in Coords, my \in Offsets, mh \in Headings :
              odom_callback(mx, my, mh) =>
                  current_state' =
                      IF mx = 0 /\ my = 0 THEN current_state
                      ELSE <<mx, my, euler_from_quaternion(mh)>>]_vars
    /\ [][Tick =>
              /\ odom_received
              /\ initial_position_received
              /\ current_state # <<>>
              /\ current_state' = current_state
              /\ current_state_unwrapped'[1] = current_state[1]
              /\ current_state_unwrapped'[2] = current_state[2]
              /\ (current_state_unwrapped'[3] - current_state[3]) % (2 * PI) = 0
              /\ telemetry' # <<>> =>
                    (telemetry'[1] = current_state[1] /\ telemetry'[2] = current_state[2])]_vars

\* a tick has read a second accepted pose that differs from the first in x,
\* in y and in orientation
C16_Witness ==
    /\ pc = "spin"
    /\ published = 1
    /\ telemetry # <<>>
    /\ current_state[1] # initial_position[1]
    /\ current_state[2] # initial_position[2]
    /\ current_state[3] # initial_position[3]
    /\ telemetry[1] = current_state[1]
    /\ telemetry[2] = current_state[2]

\* C17: an odometry message at exactly (0, 0) leaves current_state,
\* initial_position_received, odom_received and initial_position as they
\* were, before the first accepted pose and after it.
C17_OriginDiscarded ==
    [][\A mh \in Headings :
          odom_callback(0, 0, mh) =>
              UNCHANGED <<current_state, initial_position_received, odom_received,
                          initial_position>>]_vars

\* a message at (0, 0) has arrived after a pose was accepted and a command
\* published, and the pose is still the accepted one
C17_Witness ==
    /\ pc = "spin"
    /\ published >= 1
    /\ closest_index = -1
    /\ odom_received
    /\ x_position = 0
    /\ y_position = 0
    /\ ~(current_state[1] = 0 /\ current_state[2] = 0)
    /\ current_state[3] = yaw

\* the trajectory file has no line after its first, or a line that does not
\* parse as three floats
BadFile ==
    \/ Len(trajectory_file) < 2
    \/ \E i \in 2..Len(trajectory_file) : ~row_parses(trajectory_file[i])

\* C15: with a trajectory file of fewer than one data row, or with a row that
\* is not three floats, construction ends in load_trajectory with an
\* exception: it neither goes on nor reaches a control tick, and no tick ever
\* searches an empty path.
C15_BadFileFailsAtStartup ==
    /\ BadFile =>
          /\ pc \in {"init_state_variables", "crashed"}
          /\ pc = "crashed" => error \in {"StopIteration", "ValueError"}
          /\ published = 0
    /\ ~(pc = "crashed" /\ error = "IndexError" /\ L = 0)

\* C19: construction reads no attribute that has not been assigned: no
\* AttributeError ends it, csv_file is assigned when load_trajectory has
\* read the file, and the node spins only with odom_received, stop, path_type
\* and the controller assigned.
C19_StartupReadsAssignedFields ==
    /\ error # "AttributeError"
    /\ "reference_trajectory" \in assigned => "csv_file" \in assigned
    /\ pc = "spin" =>
          {"odom_received", "stop", "path_type", "controller"} \subseteq assigned

====
